---- MODULE Spec2Model ----
(***************************************************************************)
(* The LLM invocation orchestrator of travel-buddy:                        *)
(*   answer_generation  (controller/v1/generic_agent_controller.py)        *)
(*   call_generic_agent (services/v1/generic_agent_service.py)             *)
(*   call_llm_with_config, initialize_google_genai_llm,                    *)
(*   initialize_vertex_ai_llm (utils/langgraph_utils.py)                   *)
(*   LangfuseConfig     (config/langfuse_config.py)                        *)
(* Each invocation is a process whose program counter walks the statements *)
(* of these functions; os.environ and the LangfuseConfig class state are   *)
(* shared by all invocations.                                              *)
(***************************************************************************)
EXTENDS Integers, Sequences, FiniteSets, TLC

(***************************************************************************)
(* Python values.  Text is a sequence of one-character strings, so that    *)
(* strip(), join() and str() are computed and not assumed.                 *)
(*   t = "none"  None                                                      *)
(*   t = "str"   a str, s its characters                                   *)
(*   t = "int"   an int, n its value                                       *)
(*   t = "num"   a float, n its value in hundredths                        *)
(*   t = "dict"  a dict, s a tag naming its contents                       *)
(*   t = "unread" an argument the invocation has not looked at yet         *)
(***************************************************************************)
PyNone == [t |-> "none", s |-> <<>>, n |-> 0]
PyStr(s) == [t |-> "str", s |-> s, n |-> 0]
PyInt(n) == [t |-> "int", s |-> <<>>, n |-> n]
PyNum(n) == [t |-> "num", s |-> <<>>, n |-> n]
PyDict(s) == [t |-> "dict", s |-> s, n |-> 0]
Unread == [t |-> "unread", s |-> <<>>, n |-> 0]

\* bool(v): None, "", 0, 0.0 and {} are falsy
Truthy(v) ==
    CASE v.t = "none" -> FALSE
      [] v.t = "str" -> v.s # <<>>
      [] v.t = "int" -> v.n # 0
      [] v.t = "num" -> v.n # 0
      [] v.t = "dict" -> v.s # <<>>
      [] OTHER -> TRUE

\* isinstance(v, str)
IsStr(v) == v.t = "str"

\* str.isspace() of one character
IsSpace(c) == c \in {" ", "\t", "\n"}

RECURSIVE LStrip(_)
LStrip(s) == IF s # <<>> /\ IsSpace(Head(s)) THEN LStrip(Tail(s)) ELSE s

RECURSIVE RStrip(_)
RStrip(s) ==
    IF s # <<>> /\ IsSpace(s[Len(s)]) THEN RStrip(SubSeq(s, 1, Len(s) - 1)) ELSE s

\* str.strip()
Strip(s) == RStrip(LStrip(s))

(***************************************************************************)
(* Exceptions.  detail is the sequence of the text pieces of the message:  *)
(* f"Failed to call LLM: {str(e)}" is <<"Failed to call LLM: ">> \o str(e) *)
(***************************************************************************)
NoExc == [kind |-> "none", status_code |-> 0, detail |-> <<>>]
CustomException(detail, status_code) ==
    [kind |-> "CustomException", status_code |-> status_code, detail |-> detail]
\* any exception that is not a CustomException; msg is str(e)
OtherException(msg) == [kind |-> "Exception", status_code |-> 0, detail |-> <<msg>>]

HTTP_200_OK == 200
HTTP_400_BAD_REQUEST == 400
HTTP_500_INTERNAL_SERVER_ERROR == 500

\* messages of src/main/constants/error_messages.py, used by the controller
INTERNAL_SERVER_ERROR == "INTERNAL_SERVER_ERROR"

\* what a third-party SDK says when it fails: the text of an internal exception
SdkErrorTexts == {"genai sdk error", "vertex sdk error", "backend error"}

(***************************************************************************)
(* Bounds of the model                                                     *)
(***************************************************************************)
\* invocations a process makes, one after the other
MaxCalls == 2
\* concurrent invocations in SpecConc
MaxProcs == 2
\* invocations each of them makes in SpecConc
MaxConcCalls == 1

Procs == 1..MaxProcs

VARIABLES
    environ,    \* os.environ: GOOGLE_API_KEY, GOOGLE_CLOUD_PROJECT (PyNone = not set)
    langfuse,   \* LangfuseConfig._enabled, ._instance, ._callback_handler
    handler,    \* fields of the shared CallbackHandler object
    pc,         \* pc[p]: the statement invocation p is at
    inv,        \* inv[p]: arguments, locals and outcome of invocation p
    calls,      \* calls[p]: invocations p has started
    environ0,   \* history: os.environ as it was before any invocation
    cfg,        \* ConfigLoader._config_overrides, the open config_override blocks
    lfcall      \* history: the last call of a LangfuseConfig method

vars == <<environ, langfuse, handler, pc, inv, calls, environ0, cfg, lfcall>>

NoClient ==
    [backend |-> "none", api_key |-> PyNone, project |-> PyNone,
     temperature |-> PyNone, max_output_tokens |-> PyNone]

NoHttp == [status_code |-> 0, message |-> <<>>]

\* the local "content" before line 358 assigns it
NoContent ==
    [k |-> "unread", s |-> <<>>, n |-> 0, hasText |-> FALSE, text |-> <<>>,
     parts |-> <<>>]

\* the local "response" before line 339 assigns it
NoResponseYet == [kind |-> "unread", content |-> NoContent]

\* history: no LangfuseConfig method called yet
NoLangfuseCall ==
    [op |-> "none", enabled |-> FALSE, creds |-> FALSE, sdk |-> "ok",
     was_enabled |-> FALSE, returned |-> FALSE, reinitialized |-> FALSE,
     flushed |-> FALSE, n |-> 0]

\* the fields of a CallbackHandler nobody has annotated yet
HandlerFields0 ==
    [trace_name |-> PyNone, metadata |-> PyNone, user_id |-> PyNone,
     session_id |-> PyNone]

\* history: what is kept of the caller's previous invocation
NoSummary ==
    [used |-> FALSE, entry |-> "none", llm_api_key |-> Unread,
     response |-> NoResponseYet, tracing0 |-> FALSE, exc |-> NoExc, result |-> Unread]

Summary(r) ==
    [used |-> TRUE, entry |-> r.entry, llm_api_key |-> r.llm_api_key,
     response |-> r.response, tracing0 |-> r.tracing0, exc |-> r.exc,
     result |-> r.result]

\* an invocation before it starts
FreshInv ==
    [entry |-> "none",
     \* arguments
     api_key |-> Unread, prompt |-> Unread, user_query |-> Unread,
     temperature |-> Unread, max_output_tokens |-> Unread, project_id |-> Unread,
     trace_name |-> Unread, trace_metadata |-> Unread,
     user_id |-> Unread, session_id |-> Unread,
     \* locals of call_generic_agent
     original_api_key |-> Unread,
     \* locals of call_llm_with_config
     llm_api_key |-> Unread, use_genai |-> FALSE, langfuse_handler |-> FALSE,
     llm |-> NoClient, response |-> NoResponseYet, content |-> NoContent,
     result |-> Unread,
     \* outcome
     exc |-> NoExc, http |-> NoHttp,
     \* history: the shared state when the invocation started, what it called
     env0 |-> PyNone, handler0 |-> HandlerFields0, tracing0 |-> FALSE,
     prev |-> NoSummary, factories |-> {},
     invoked |-> FALSE, callbacks |-> FALSE, called_with |-> HandlerFields0,
     flushes |-> 0, flush_raised |-> FALSE, raised |-> NoExc]

(***************************************************************************)
(* LangfuseConfig (class state shared by all invocations)                  *)
(***************************************************************************)
\* the class attributes as the class statement leaves them
LangfuseClassState == [enabled |-> FALSE, instance |-> FALSE, callback_handler |-> FALSE]

\* initialize with _enabled set before the SDK objects are made, and left
\* set when making them fails
LangfuseInitializeEnabledFirst(lf, enabled, creds, sdk) ==
    IF ~enabled THEN [lf EXCEPT !.enabled = FALSE]
    ELSE IF ~creds THEN [lf EXCEPT !.enabled = FALSE]
    ELSE IF sdk = "no_client" THEN [lf EXCEPT !.enabled = TRUE]
    ELSE IF sdk = "no_handler" THEN [lf EXCEPT !.instance = TRUE, !.enabled = TRUE]
    ELSE [enabled |-> TRUE, instance |-> TRUE, callback_handler |-> TRUE]

\* LangfuseConfig.initialize.  enabled: the argument; creds: public_key and
\* secret_key are both found; sdk: how far the SDK constructors get
\* ("ok", "no_client": Langfuse() raises, "no_handler": CallbackHandler() raises)
LangfuseInitialize(lf, enabled, creds, sdk) ==
    IF ~enabled THEN [lf EXCEPT !.enabled = FALSE]
    ELSE IF ~creds THEN [lf EXCEPT !.enabled = FALSE]
    ELSE IF sdk = "no_client" THEN [lf EXCEPT !.enabled = FALSE]
    ELSE IF sdk = "no_handler" THEN [lf EXCEPT !.instance = TRUE, !.enabled = FALSE]
    ELSE [enabled |-> TRUE, instance |-> TRUE, callback_handler |-> TRUE]

SdkOutcomes == {"ok", "no_client", "no_handler"}

\* LangfuseConfig.get_callback_handler: the class state after the call
\* (it calls initialize() when enabled without a handler)
GetCallbackHandlerState(lf, creds, sdk) ==
    IF ~lf.enabled THEN lf
    ELSE IF ~lf.callback_handler THEN LangfuseInitialize(lf, TRUE, creds, sdk)
    ELSE lf

\* get_callback_handler without the test of line 66
GetCallbackHandlerIgnoringEnabled(lf, creds, sdk) == lf.callback_handler

\* LangfuseConfig.get_callback_handler: whether it returns a handler
GetCallbackHandler(lf, creds, sdk) ==
    IF ~lf.enabled THEN FALSE
    ELSE GetCallbackHandlerState(lf, creds, sdk).callback_handler

\* LangfuseConfig.get_client: the class state after the call
GetClientState(lf, creds, sdk) ==
    IF ~lf.enabled THEN lf
    ELSE IF ~lf.instance THEN LangfuseInitialize(lf, TRUE, creds, sdk)
    ELSE lf

\* LangfuseConfig.get_client: whether it returns a client
GetClient(lf, creds, sdk) ==
    IF ~lf.enabled THEN FALSE
    ELSE GetClientState(lf, creds, sdk).instance

(***************************************************************************)
(* call_generic_agent                                                      *)
(***************************************************************************)
\* the check of line 42 without its isinstance test
ApiKeyAcceptedAnyType(api_key) == Truthy(api_key)

\* line 42: the api_key passes "if not api_key or not isinstance(api_key, str)"
ApiKeyAccepted(api_key) == Truthy(api_key) /\ IsStr(api_key)

\* the finally block without its elif branch: a key that was not set before
\* is not removed
RestoreApiKeyNoDelete(original_api_key, current) ==
    IF original_api_key.t # "none" THEN original_api_key ELSE current

\* lines 84-87, the finally block: GOOGLE_API_KEY after the restore
RestoreApiKey(original_api_key, current) ==
    IF original_api_key.t # "none" THEN original_api_key
    ELSE IF current.t # "none" THEN PyNone
    ELSE current

(***************************************************************************)
(* Client factories                                                        *)
(***************************************************************************)
\* what a factory hands back: the client, or the exception it raised
Built(llm) == [exc |-> NoExc, llm |-> llm]
Failed(exc) == [exc |-> exc, llm |-> NoClient]

\* "except Exception as e" of a factory: wraps e in a CustomException(500)
FactoryWrap(prefix, e) ==
    CustomException(<<prefix>> \o e.detail, HTTP_500_INTERNAL_SERVER_ERROR)

\* initialize_google_genai_llm.  env_key: GOOGLE_API_KEY when the function
\* runs; sdk_ok: the ChatGoogleGenerativeAI constructor does not raise
InitializeGoogleGenaiLlm(api_key, env_key, temperature, max_output_tokens, sdk_ok) ==
    LET key == IF api_key.t = "none" THEN env_key ELSE api_key
    IN  IF api_key.t = "none" /\ ~Truthy(key)
        THEN Failed(CustomException(
                 <<"api_key must be provided or GOOGLE_API_KEY environment variable must be set">>,
                 HTTP_400_BAD_REQUEST))
        ELSE IF ~sdk_ok
        THEN Failed(FactoryWrap("Failed to initialize Google AI Studio LLM: ",
                                OtherException("genai sdk error")))
        ELSE Built([backend |-> "genai", api_key |-> key, project |-> PyNone,
                    temperature |-> temperature,
                    max_output_tokens |-> max_output_tokens])

\* line 106 with the bounds themselves rejected
TemperatureOutOfRangeOpen(temperature) == temperature.n <= 0 \/ temperature.n >= 100

\* line 106: "temperature < 0 or temperature > 1" (hundredths)
TemperatureOutOfRange(temperature) == temperature.n < 0 \/ temperature.n > 100

\* line 121: "max_output_tokens and max_output_tokens <= 0"
MaxTokensRejected(max_output_tokens) ==
    Truthy(max_output_tokens) /\ max_output_tokens.n <= 0

\* initialize_vertex_ai_llm.  env_project: GOOGLE_CLOUD_PROJECT when the
\* function runs; sdk_ok: the ChatVertexAI constructor does not raise
InitializeVertexAiLlm(project_id, env_project, temperature, max_output_tokens, sdk_ok) ==
    LET project == IF project_id.t = "none" THEN env_project ELSE project_id
    IN  IF project_id.t = "none" /\ ~Truthy(project)
        THEN Failed(CustomException(
                 <<"project_id must be provided or GOOGLE_CLOUD_PROJECT environment variable must be set">>,
                 HTTP_400_BAD_REQUEST))
        ELSE IF temperature.t # "num"
        \* None < 0 raises TypeError, caught by "except Exception"
        THEN Failed(FactoryWrap("Failed to initialize Vertex AI LLM: ",
                                OtherException("'<' not supported")))
        ELSE IF TemperatureOutOfRange(temperature)
        THEN Failed(CustomException(<<"Temperature must be between 0 and 1">>,
                                    HTTP_400_BAD_REQUEST))
        ELSE IF MaxTokensRejected(max_output_tokens)
        THEN Failed(CustomException(<<"max_output_tokens must be positive">>,
                                    HTTP_400_BAD_REQUEST))
        ELSE IF ~sdk_ok
        THEN Failed(FactoryWrap("Failed to initialize Vertex AI LLM: ",
                                OtherException("vertex sdk error")))
        ELSE Built([backend |-> "vertex", api_key |-> PyNone, project |-> project,
                    temperature |-> temperature,
                    max_output_tokens |-> max_output_tokens])

(***************************************************************************)
(* Response content and its normalization                                  *)
(*   k: "str" (a str), "list" (a list), "int", "obj" (any other object)    *)
(*   s: the characters of a str, or str(x) of an object                    *)
(*   hasText/text: the object has a text attribute, and its value          *)
(*   parts: the elements of a list                                         *)
(***************************************************************************)
Content(k, s, n, hasText, text, parts) ==
    [k |-> k, s |-> s, n |-> n, hasText |-> hasText, text |-> text, parts |-> parts]

Digit(d) == <<"0", "1", "2", "3", "4", "5", "6", "7", "8", "9">>[d + 1]

RECURSIVE NatToStr(_)
NatToStr(n) == IF n < 10 THEN <<Digit(n)>> ELSE NatToStr(n \div 10) \o <<Digit(n % 10)>>

\* str(n) of an int
IntToStr(n) == IF n < 0 THEN <<"-">> \o NatToStr(-n) ELSE NatToStr(n)

\* str(x)
StrOf(x) == IF x.k = "int" THEN IntToStr(x.n) ELSE x.s

\* lines 363-368: what one part of a list contributes
PartText(part) ==
    IF part.hasText THEN part.text
    ELSE IF part.k = "str" THEN part.s
    ELSE StrOf(part)

\* '\n'.join(texts)
RECURSIVE JoinLines(_)
JoinLines(texts) ==
    IF texts = <<>> THEN <<>>
    ELSE IF Len(texts) = 1 THEN texts[1]
    ELSE texts[1] \o <<"\n">> \o JoinLines(Tail(texts))

\* lines 360-375 with the text attribute looked at first
NormalizeTextFirst(content) ==
    IF content.hasText THEN content.text
    ELSE IF content.k = "list"
    THEN JoinLines([i \in 1..Len(content.parts) |-> PartText(content.parts[i])])
    ELSE IF content.k = "str" THEN content.s
    ELSE StrOf(content)

\* lines 360-375: the text call_llm_with_config returns for a content
Normalize(content) ==
    IF content.k = "list"
    THEN JoinLines([i \in 1..Len(content.parts) |-> PartText(content.parts[i])])
    ELSE IF content.k = "str" THEN content.s
    ELSE IF content.hasText THEN content.text
    ELSE StrOf(content)

(***************************************************************************)
(* Inputs: what callers pass and what the SDKs answer                      *)
(***************************************************************************)
ApiKeys ==
    {PyNone, PyStr(<<>>), PyInt(7), PyStr(<<" ">>), PyStr(<<"a">>), PyStr(<<" ", "b">>)}
Texts == {PyNone, PyStr(<<>>), PyInt(7), PyStr(<<"q">>)}
Temperatures == {PyNone, PyNum(-1), PyNum(0), PyNum(100), PyNum(101)}
MaxTokens == {PyNone, PyInt(-5), PyInt(0), PyInt(100)}
ProjectIds == {PyNone, PyStr(<<>>), PyStr(<<"p">>)}
TraceNames == {PyNone, PyStr(<<"t">>)}
TraceMetadata == {PyNone, PyDict(<<"m">>)}
UserIds == {PyNone, PyStr(<<"u">>)}
SessionIds == {PyNone, PyStr(<<"s">>)}

\* the parts a list content is made of
Parts ==
    {Content("str", <<"a">>, 0, FALSE, <<>>, <<>>),
     Content("str", <<>>, 0, FALSE, <<>>, <<>>),
     Content("obj", <<"<", "P", ">">>, 0, TRUE, <<"x">>, <<>>),
     Content("str", <<"b">>, 0, TRUE, <<"y">>, <<>>),
     Content("obj", <<"<", "O", ">">>, 0, FALSE, <<>>, <<>>),
     Content("int", <<>>, 42, FALSE, <<>>, <<>>),
     Content("int", <<>>, -7, FALSE, <<>>, <<>>)}

\* longest list content
MaxParts == 2

PartLists == UNION {[1..k -> Parts] : k \in 0..MaxParts}

\* every content shape: the scalars, lists, and lists that also have a text
\* attribute
Contents ==
    Parts
    \cup {Content("list", <<"[", "]">>, 0, FALSE, <<>>, ps) : ps \in PartLists}
    \cup {Content("list", <<"[", "]">>, 0, TRUE, <<"z">>, ps) : ps \in PartLists}

\* what llm.invoke gives back: nothing, a message with a content, an object
\* without a content attribute, or an exception
NoResponse ==
    [kind |-> "none", content |-> Content("obj", <<"N", "o", "n", "e">>, 0, FALSE, <<>>, <<>>)]
Message(content) == [kind |-> "message", content |-> content]
Bare(repr) == [kind |-> "bare", content |-> Content("obj", repr, 0, FALSE, <<>>, <<>>)]
Raises == [kind |-> "raises", content |-> Content("obj", <<>>, 0, FALSE, <<>>, <<>>)]

\* the contents the invocations of Spec meet: a string, and a list of a
\* string and an object with a text attribute
SomeContents ==
    {Content("str", <<"a">>, 0, FALSE, <<>>, <<>>),
     Content("list", <<"[", "]">>, 0, FALSE, <<>>,
             <<Content("str", <<"a">>, 0, FALSE, <<>>, <<>>),
               Content("obj", <<"<", "P", ">">>, 0, TRUE, <<"x">>, <<>>)>>)}

Responses ==
    {NoResponse, Raises, Bare(<<"r">>)} \cup {Message(c) : c \in SomeContents}

\* the inputs of an invocation, as one record of sets
Domains(n, entries, keys, texts, temps, toks, projs, names, metas, uids, sids, sdk, resps) ==
    [coop |-> FALSE, history |-> FALSE, max_calls |-> n, entries |-> entries, api_keys |-> keys, texts |-> texts, temperatures |-> temps,
     max_tokens |-> toks, project_ids |-> projs, trace_names |-> names,
     trace_metadata |-> metas, user_ids |-> uids, session_ids |-> sids,
     sdk_ok |-> sdk, responses |-> resps, flush_raises |-> BOOLEAN]

\* Spec: every entry point and every validated input; one trace argument
AllInputs ==
    Domains(MaxCalls, {"http", "agent", "llm"}, ApiKeys, Texts, Temperatures, MaxTokens,
            ProjectIds, TraceNames, {PyNone}, {PyNone}, {PyNone},
            BOOLEAN, Responses)

(***************************************************************************)
(* ConfigLoader                                                            *)
(*   a key is a string (its characters), a path the keys given to get      *)
(***************************************************************************)
\* no override set
NoOverride == [t |-> "absent", s |-> <<>>, n |-> 0]

\* history: the last config_override block left
NoExit ==
    [used |-> FALSE, keys |-> <<>>, before |-> PyNone, after |-> PyNone,
     touched |-> FALSE, by_exception |-> FALSE]

\* the paths callers ask for: a section, a value in it, and one key with a dot
ConfigPaths == {<< <<"a">> >>, << <<"a">>, <<"b">> >>, << <<"a", ".", "b">> >>}

\* '.'.join(keys)
RECURSIVE JoinDots(_)
JoinDots(keys) ==
    IF keys = <<>> THEN <<>>
    ELSE IF Len(keys) = 1 THEN keys[1]
    ELSE keys[1] \o <<".">> \o JoinDots(Tail(keys))

OverrideKeys == {JoinDots(keys) : keys \in ConfigPaths}

\* the state after import: _config_overrides = {}, no block open
NoOverrides ==
    [overrides |-> [k \in OverrideKeys |-> NoOverride], blocks |-> <<>>,
     last |-> NoExit]

\* a node of the parsed config.json: a value, or a dict of nodes
Leaf(v) == [t |-> "leaf", v |-> v, d |-> <<>>]
Dict(repr, d) == [t |-> "dict", v |-> PyDict(repr), d |-> d]

\* config.json as loaded: {"a": {"b": "f"}}
ConfigFile == Dict(<<"a">>, <<"a">> :> Dict(<<"b">>, <<"b">> :> Leaf(PyStr(<<"f">>))))

\* ConfigLoader.get lines 57-65: the walk down the loaded dict
RECURSIVE Walk(_, _, _)
Walk(value, keys, default) ==
    IF keys = <<>> THEN (IF value.v = PyNone THEN default ELSE value.v)
    ELSE IF value.t = "dict"
    THEN IF Head(keys) \in DOMAIN value.d /\ value.d[Head(keys)].v # PyNone
         THEN Walk(value.d[Head(keys)], Tail(keys), default)
         ELSE default
    ELSE default

\* ConfigLoader.get
Get(overrides, keys, default) ==
    IF overrides[JoinDots(keys)] # NoOverride THEN overrides[JoinDots(keys)]
    ELSE Walk(ConfigFile, keys, default)

\* ConfigLoader.set_override
SetOverride(overrides, keys, value) == [overrides EXCEPT ![JoinDots(keys)] = value]

\* ConfigLoader.clear_override
ClearOverride(overrides, keys) == [overrides EXCEPT ![JoinDots(keys)] = NoOverride]

\* the values callers override with
OverrideValues == {PyStr(<<"x">>), PyStr(<<"y">>)}

\* config_override blocks open at once
MaxDepth == 2

\* the open blocks with those on the same override key marked: the body of
\* the block has set or cleared the override itself
Touch(blocks, keys) ==
    [i \in 1..Len(blocks) |->
        IF JoinDots(blocks[i].keys) = JoinDots(keys)
        THEN [blocks[i] EXCEPT !.touched = TRUE] ELSE blocks[i]]

\* a caller calls set_override
CfgSetOverride ==
    /\ \E keys \in ConfigPaths, value \in OverrideValues :
        cfg' = [cfg EXCEPT !.overrides = SetOverride(cfg.overrides, keys, value),
                           !.blocks = Touch(cfg.blocks, keys)]
    /\ UNCHANGED <<environ, langfuse, handler, pc, inv, calls, environ0, lfcall>>

\* a caller calls clear_override
CfgClearOverride ==
    /\ \E keys \in ConfigPaths :
        cfg' = [cfg EXCEPT !.overrides = ClearOverride(cfg.overrides, keys),
                           !.blocks = Touch(cfg.blocks, keys)]
    /\ UNCHANGED <<environ, langfuse, handler, pc, inv, calls, environ0, lfcall>>

\* config_override lines 143-146: the block is entered
CfgEnter ==
    /\ Len(cfg.blocks) < MaxDepth
    /\ \E keys \in ConfigPaths, value \in OverrideValues :
        LET overrides == SetOverride(cfg.overrides, keys, value)
        IN  cfg' = [cfg EXCEPT
                !.overrides = overrides,
                !.blocks = Append(@, [keys |-> keys, value |-> value,
                                      before |-> Get(cfg.overrides, keys, PyNone),
                                      inside |-> Get(overrides, keys, PyNone),
                                      touched |-> FALSE])]
    /\ UNCHANGED <<environ, langfuse, handler, pc, inv, calls, environ0, lfcall>>

\* config_override lines 147-148: the innermost block is left, its body
\* having returned or raised
CfgExit ==
    /\ cfg.blocks # <<>>
    /\ \E by_exception \in BOOLEAN :
        LET top == cfg.blocks[Len(cfg.blocks)]
            overrides == ClearOverride(cfg.overrides, top.keys)
        IN  cfg' = [overrides |-> overrides,
                    blocks |-> SubSeq(cfg.blocks, 1, Len(cfg.blocks) - 1),
                    last |-> [used |-> TRUE, keys |-> top.keys,
                              before |-> top.before,
                              after |-> Get(overrides, top.keys, PyNone),
                              touched |-> top.touched,
                              by_exception |-> by_exception]]
    /\ UNCHANGED <<environ, langfuse, handler, pc, inv, calls, environ0, lfcall>>

\* the configuration API used on its own by one caller
NextConfig == CfgSetOverride \/ CfgClearOverride \/ CfgEnter \/ CfgExit

(***************************************************************************)
(* The state after import: init_langfuse() has run once                    *)
(***************************************************************************)
EnvKeys == {PyNone, PyStr(<<>>), PyStr(<<"x">>)}
EnvProjects == {PyNone, PyStr(<<"e">>)}

Init ==
    /\ environ \in [GOOGLE_API_KEY : EnvKeys, GOOGLE_CLOUD_PROJECT : EnvProjects]
    /\ langfuse \in {LangfuseInitialize(LangfuseClassState, e, c, s) :
                        e \in BOOLEAN, c \in BOOLEAN, s \in SdkOutcomes}
    /\ handler = HandlerFields0
    /\ pc = [p \in Procs |-> "idle"]
    /\ inv = [p \in Procs |-> FreshInv]
    /\ calls = [p \in Procs |-> 0]
    /\ environ0 = environ
    /\ cfg = NoOverrides
    /\ lfcall = NoLangfuseCall

\* the invocation raises exc here: exc starts travelling up the stack
Raising(r, exc) == [r EXCEPT !.exc = exc, !.raised = exc]

\* where control goes when call_llm_with_config is left
AfterLlm(entry) == IF entry = "llm" THEN "done" ELSE "svc_finally"
\* where control goes when call_generic_agent is left
AfterSvc(entry) == IF entry = "agent" THEN "done" ELSE "ctl_respond"

\* on one event loop (D.coop) an invocation starts, or resumes from its
\* backend call, only while no other invocation is running
Scheduled(p, D) ==
    D.coop => \A q \in Procs \ {p} : pc[q] \in {"idle", "llm_wait", "done"}

\* a caller invokes the endpoint, call_generic_agent or call_llm_with_config
Start(p, D) ==
    /\ pc[p] \in {"idle", "done"}
    /\ Scheduled(p, D)
    /\ calls[p] < D.max_calls
    /\ \E e \in D.entries :
        /\ inv' = [inv EXCEPT ![p] =
                      [FreshInv EXCEPT !.entry = e,
                                       !.env0 = environ.GOOGLE_API_KEY,
                                       !.handler0 = handler,
                                       !.tracing0 = langfuse.enabled,
                                       !.prev = IF D.history /\ inv[p].entry # "none"
                                                THEN Summary(inv[p]) ELSE NoSummary]]
        /\ pc' = [pc EXCEPT ![p] = IF e = "llm" THEN "llm_validate" ELSE "svc_validate"]
    /\ calls' = [calls EXCEPT ![p] = @ + 1]
    /\ UNCHANGED <<environ, langfuse, handler, environ0, cfg, lfcall>>

\* the request model of the endpoint lets through a str or null api_key, str
\* prompt and user_query, and no project_id
FromPayload(entry, values, types) ==
    IF entry = "http" THEN {v \in values : v.t \in types} ELSE values

\* call_generic_agent lines 42-55
SvcValidate(p, D) ==
    /\ pc[p] = "svc_validate"
    /\ \E k \in FromPayload(inv[p].entry, D.api_keys, {"none", "str"}) :
        IF ApiKeyAccepted(k)
        THEN /\ inv' = [inv EXCEPT ![p].api_key = k]
             /\ pc' = [pc EXCEPT ![p] = "svc_save"]
        ELSE /\ inv' = [inv EXCEPT ![p] =
                   Raising([@ EXCEPT !.api_key = k],
                           CustomException(<<"API key must be a non-empty string">>,
                                           HTTP_400_BAD_REQUEST))]
             /\ pc' = [pc EXCEPT ![p] = "svc_except"]
    /\ UNCHANGED <<environ, langfuse, handler, calls, environ0, cfg, lfcall>>

\* call_generic_agent line 57
SvcSave(p) ==
    /\ pc[p] = "svc_save"
    /\ inv' = [inv EXCEPT ![p].original_api_key = environ.GOOGLE_API_KEY]
    /\ pc' = [pc EXCEPT ![p] = "svc_install"]
    /\ UNCHANGED <<environ, langfuse, handler, calls, environ0, cfg, lfcall>>

\* call_generic_agent lines 58-79: installs the key and calls call_llm_with_config
SvcInstall(p) ==
    /\ pc[p] = "svc_install"
    /\ environ' = [environ EXCEPT !.GOOGLE_API_KEY = inv[p].api_key]
    /\ pc' = [pc EXCEPT ![p] = "llm_validate"]
    /\ UNCHANGED <<langfuse, handler, inv, calls, environ0, cfg, lfcall>>

\* call_generic_agent lines 83-87
SvcFinally(p) ==
    /\ pc[p] = "svc_finally"
    /\ environ' = [environ EXCEPT !.GOOGLE_API_KEY =
                       RestoreApiKey(inv[p].original_api_key, environ.GOOGLE_API_KEY)]
    /\ pc' = [pc EXCEPT ![p] = IF inv[p].exc = NoExc THEN AfterSvc(inv[p].entry)
                               ELSE "svc_except"]
    /\ UNCHANGED <<langfuse, handler, inv, calls, environ0, cfg, lfcall>>

\* call_generic_agent lines 89-105: what the handlers make of an exception
SvcHandler(exc) ==
    IF exc.kind = "CustomException" THEN exc
    ELSE CustomException(<<"Failed to call generic agent: ">> \o exc.detail,
                         HTTP_500_INTERNAL_SERVER_ERROR)

SvcExcept(p) ==
    /\ pc[p] = "svc_except"
    /\ inv' = [inv EXCEPT ![p].exc = SvcHandler(inv[p].exc)]
    /\ pc' = [pc EXCEPT ![p] = AfterSvc(inv[p].entry)]
    /\ UNCHANGED <<environ, langfuse, handler, calls, environ0, cfg, lfcall>>

(***************************************************************************)
(* call_llm_with_config                                                    *)
(***************************************************************************)
\* the checks of lines 252 and 267 without their isinstance test
TextRejectedAnyType(x) == ~Truthy(x)

\* lines 252 and 267: "not x or not isinstance(x, str)"
TextRejected(x) == ~Truthy(x) \/ ~IsStr(x)

\* lines 252-280
LlmValidate(p, D) ==
    /\ pc[p] = "llm_validate"
    /\ \E prompt \in FromPayload(inv[p].entry, D.texts, {"str"}) :
        IF TextRejected(prompt)
        THEN /\ inv' = [inv EXCEPT ![p] =
                   Raising([@ EXCEPT !.prompt = prompt],
                           CustomException(<<"Prompt must be a non-empty string">>,
                                           HTTP_400_BAD_REQUEST))]
             /\ pc' = [pc EXCEPT ![p] = "llm_except"]
        ELSE \E user_query \in FromPayload(inv[p].entry, D.texts, {"str"}) :
            IF TextRejected(user_query)
            THEN /\ inv' = [inv EXCEPT ![p] =
                       Raising([@ EXCEPT !.prompt = prompt, !.user_query = user_query],
                               CustomException(<<"User query must be a non-empty string">>,
                                               HTTP_400_BAD_REQUEST))]
                 /\ pc' = [pc EXCEPT ![p] = "llm_except"]
            ELSE /\ inv' = [inv EXCEPT ![p].prompt = prompt,
                                       ![p].user_query = user_query]
                 /\ pc' = [pc EXCEPT ![p] = "llm_select"]
    /\ UNCHANGED <<environ, langfuse, handler, calls, environ0, cfg, lfcall>>

\* line 291 without the strip()
UseGenaiNoStrip(api_key) == api_key.t # "none" /\ api_key.s # <<>>

\* line 291: use_genai
UseGenai(api_key) == api_key.t # "none" /\ Strip(api_key.s) # <<>>

\* lines 290-291: reads the ambient key and selects the backend
LlmSelect(p) ==
    /\ pc[p] = "llm_select"
    /\ inv' = [inv EXCEPT ![p].llm_api_key = environ.GOOGLE_API_KEY,
                          ![p].use_genai = UseGenai(environ.GOOGLE_API_KEY)]
    /\ pc' = [pc EXCEPT ![p] = "llm_tracing"]
    /\ UNCHANGED <<environ, langfuse, handler, calls, environ0, cfg, lfcall>>

\* lines 297-307: the handler's fields after the invocation annotated it
AnnotateHandler(h, trace_name, trace_metadata, user_id, session_id) ==
    [trace_name |-> IF Truthy(trace_name) THEN trace_name ELSE h.trace_name,
     metadata |-> IF Truthy(trace_metadata) THEN trace_metadata ELSE h.metadata,
     user_id |-> IF Truthy(user_id) THEN user_id ELSE h.user_id,
     session_id |-> IF Truthy(session_id) THEN session_id ELSE h.session_id]

\* the trace arguments call_llm_with_config gets: a direct caller's own, or
\* what call_generic_agent (lines 62-78) makes of its caller's
TraceNameArg(entry, trace_name) ==
    IF entry = "llm" THEN trace_name
    ELSE IF Truthy(trace_name) THEN trace_name ELSE PyStr(<<"generic_agent_call">>)

TraceMetadataArg(entry, trace_metadata) ==
    IF entry = "llm" THEN trace_metadata
    ELSE PyDict(trace_metadata.s \o <<"model_config", "timestamp", "service">>)

\* the endpoint passes no trace arguments
FromEndpoint(entry, values) == IF entry = "http" THEN {PyNone} ELSE values

\* lines 293-309
LlmTracing(p, D) ==
    /\ pc[p] = "llm_tracing"
    /\ \E creds \in BOOLEAN, sdk \in SdkOutcomes :
        /\ langfuse' = GetCallbackHandlerState(langfuse, creds, sdk)
        /\ IF GetCallbackHandler(langfuse, creds, sdk)
           THEN \E tn \in FromEndpoint(inv[p].entry, D.trace_names),
                   md \in FromEndpoint(inv[p].entry, D.trace_metadata),
                   uid \in FromEndpoint(inv[p].entry, D.user_ids),
                   sid \in FromEndpoint(inv[p].entry, D.session_ids) :
                LET name == TraceNameArg(inv[p].entry, tn)
                    meta == TraceMetadataArg(inv[p].entry, md)
                IN  /\ handler' = AnnotateHandler(handler, name, meta, uid, sid)
                    /\ inv' = [inv EXCEPT ![p].langfuse_handler = TRUE,
                                          ![p].trace_name = name,
                                          ![p].trace_metadata = meta,
                                          ![p].user_id = uid,
                                          ![p].session_id = sid]
           ELSE /\ handler' = handler
                /\ inv' = inv
    /\ pc' = [pc EXCEPT ![p] = "llm_factory"]
    /\ UNCHANGED <<environ, calls, environ0, cfg, lfcall>>

\* lines 312-331
LlmFactory(p, D) ==
    /\ pc[p] = "llm_factory"
    /\ \E temperature \in D.temperatures, max_output_tokens \in D.max_tokens,
          project_id \in IF inv[p].use_genai THEN {Unread}
                         ELSE FromEndpoint(inv[p].entry, D.project_ids),
          sdk_ok \in D.sdk_ok :
        LET made == IF inv[p].use_genai
                    THEN InitializeGoogleGenaiLlm(inv[p].llm_api_key,
                             environ.GOOGLE_API_KEY, temperature, max_output_tokens,
                             sdk_ok)
                    ELSE InitializeVertexAiLlm(project_id,
                             environ.GOOGLE_CLOUD_PROJECT, temperature,
                             max_output_tokens, sdk_ok)
            r == [inv[p] EXCEPT !.temperature = temperature,
                                !.max_output_tokens = max_output_tokens,
                                !.project_id = project_id,
                                !.factories = {IF inv[p].use_genai THEN "genai"
                                               ELSE "vertex"}]
        IN  IF made.exc = NoExc
            THEN /\ inv' = [inv EXCEPT ![p] = [r EXCEPT !.llm = made.llm]]
                 /\ pc' = [pc EXCEPT ![p] = "llm_invoke"]
            ELSE /\ inv' = [inv EXCEPT ![p] = Raising(r, made.exc)]
                 /\ pc' = [pc EXCEPT ![p] = "llm_except"]
    /\ UNCHANGED <<environ, langfuse, handler, calls, environ0, cfg, lfcall>>

\* lines 338-341: the backend call starts; the invocation is suspended in it
LlmInvoke(p) ==
    /\ pc[p] = "llm_invoke"
    /\ inv' = [inv EXCEPT ![p].invoked = TRUE,
                          ![p].callbacks = inv[p].langfuse_handler,
                          ![p].called_with = handler]
    /\ pc' = [pc EXCEPT ![p] = "llm_wait"]
    /\ UNCHANGED <<environ, langfuse, handler, calls, environ0, cfg, lfcall>>

\* line 358: the content of a response
ContentOf(response) ==
    IF response.kind = "message" THEN response.content
    ELSE Content("str", StrOf(response.content), 0, FALSE, <<>>, <<>>)

\* line 343 taken out: no response is ever found missing
ResponseMissingNever(response) == FALSE

\* line 343: "if not response"
ResponseMissing(response) == response.kind = "none"

\* lines 338-375: the backend call ends, the response is normalized
LlmResponse(p, D) ==
    /\ pc[p] = "llm_wait"
    /\ Scheduled(p, D)
    /\ \E response \in D.responses :
        IF response.kind = "raises"
        THEN /\ inv' = [inv EXCEPT ![p] =
                   Raising([@ EXCEPT !.response = response],
                           OtherException("backend error"))]
             /\ pc' = [pc EXCEPT ![p] = "llm_except"]
        ELSE IF ResponseMissing(response)
        THEN /\ inv' = [inv EXCEPT ![p] =
                   Raising([@ EXCEPT !.response = response],
                           CustomException(<<"LLM returned empty response">>,
                                           HTTP_500_INTERNAL_SERVER_ERROR))]
             /\ pc' = [pc EXCEPT ![p] = "llm_except"]
        ELSE /\ inv' = [inv EXCEPT ![p].response = response,
                                   ![p].content = ContentOf(response),
                                   ![p].result = PyStr(Normalize(ContentOf(response)))]
             /\ pc' = [pc EXCEPT ![p] = "llm_flush"]
    /\ UNCHANGED <<environ, langfuse, handler, calls, environ0, cfg, lfcall>>

\* LangfuseConfig.flush: whether the client's flush() is called
FlushCalls(lf) == lf.instance /\ lf.enabled

\* LangfuseConfig.flush without its try/except
LangfuseFlushUncaught(lf, raises) ==
    IF FlushCalls(lf) /\ raises THEN OtherException("flush error") ELSE NoExc

\* LangfuseConfig.flush, lines 89-95: the exception that leaves it when the
\* client's flush() raises (raises) or not; "except Exception" logs and
\* swallows
LangfuseFlush(lf, raises) ==
    LET e == IF FlushCalls(lf) /\ raises THEN OtherException("flush error") ELSE NoExc
    IN  IF e.kind = "Exception" THEN NoExc ELSE e

\* lines 377-380
LlmFlush(p, D) ==
    /\ pc[p] = "llm_flush"
    /\ \E raises \in D.flush_raises :
        LET e == IF inv[p].langfuse_handler THEN LangfuseFlush(langfuse, raises)
                 ELSE NoExc
            called == inv[p].langfuse_handler /\ FlushCalls(langfuse)
            r == [inv[p] EXCEPT !.flushes = IF called THEN @ + 1 ELSE @,
                                !.flush_raised = called /\ raises]
        IN  IF e = NoExc
            THEN /\ inv' = [inv EXCEPT ![p] = r]
                 /\ pc' = [pc EXCEPT ![p] = AfterLlm(inv[p].entry)]
            ELSE /\ inv' = [inv EXCEPT ![p] = Raising(r, e)]
                 /\ pc' = [pc EXCEPT ![p] = "llm_except"]
    /\ UNCHANGED <<environ, langfuse, handler, calls, environ0, cfg, lfcall>>

\* lines 382-398: what the handlers make of an exception
LlmHandler(exc) ==
    IF exc.kind = "CustomException" THEN exc
    ELSE CustomException(<<"Failed to call LLM: ">> \o exc.detail,
                         HTTP_500_INTERNAL_SERVER_ERROR)

LlmExcept(p) ==
    /\ pc[p] = "llm_except"
    /\ inv' = [inv EXCEPT ![p].exc = LlmHandler(inv[p].exc)]
    /\ pc' = [pc EXCEPT ![p] = AfterLlm(inv[p].entry)]
    /\ UNCHANGED <<environ, langfuse, handler, calls, environ0, cfg, lfcall>>

(***************************************************************************)
(* answer_generation                                                       *)
(***************************************************************************)
\* lines 26-46: the response the endpoint gives
Respond(exc, result) ==
    IF exc.kind = "none"
    THEN IF result.t = "none"
         \* the HTTPException of line 27 is caught by "except Exception"
         THEN [status_code |-> HTTP_500_INTERNAL_SERVER_ERROR,
               message |-> <<INTERNAL_SERVER_ERROR>>]
         ELSE [status_code |-> HTTP_200_OK, message |-> result.s]
    ELSE IF exc.kind = "CustomException"
    THEN [status_code |-> exc.status_code, message |-> exc.detail]
    ELSE [status_code |-> HTTP_500_INTERNAL_SERVER_ERROR,
          message |-> <<INTERNAL_SERVER_ERROR>>]

CtlRespond(p) ==
    /\ pc[p] = "ctl_respond"
    /\ inv' = [inv EXCEPT ![p].http = Respond(inv[p].exc, inv[p].result)]
    /\ pc' = [pc EXCEPT ![p] = "done"]
    /\ UNCHANGED <<environ, langfuse, handler, calls, environ0, cfg, lfcall>>

(***************************************************************************)
(* Specifications                                                          *)
(***************************************************************************)
Step(p, D) ==
    \/ Start(p, D)
    \/ SvcValidate(p, D)
    \/ SvcSave(p)
    \/ SvcInstall(p)
    \/ LlmValidate(p, D)
    \/ LlmSelect(p)
    \/ LlmTracing(p, D)
    \/ LlmFactory(p, D)
    \/ LlmInvoke(p)
    \/ LlmResponse(p, D)
    \/ LlmFlush(p, D)
    \/ LlmExcept(p)
    \/ SvcFinally(p)
    \/ SvcExcept(p)
    \/ CtlRespond(p)

\* one caller at a time: invocations run one after the other
Next == Step(1, AllInputs)

Spec == Init /\ [][Next]_vars

\* two callers at once, their statements interleaved
ConcInputs ==
    Domains(MaxConcCalls, {"http", "agent"}, {PyStr(<<"a">>), PyStr(<<"b">>)}, {PyStr(<<"q">>)},
            {PyNum(0)}, {PyNone}, {PyNone}, {PyNone}, {PyNone}, {PyNone}, {PyNone},
            {TRUE}, {Message(Content("str", <<"a">>, 0, FALSE, <<>>, <<>>)), Raises})

NextConc == \E p \in Procs : Step(p, ConcInputs)

\* tracing is on and no GOOGLE_CLOUD_PROJECT is set
InitConc ==
    /\ Init
    /\ langfuse.enabled
    /\ environ.GOOGLE_CLOUD_PROJECT = PyNone

SpecConc == InitConc /\ [][NextConc]_vars

\* two callers on one event loop: a caller runs until it is suspended in its
\* backend call or is done, and only then does the other one run
CoopInputs == [ConcInputs EXCEPT !.coop = TRUE]

NextCoop == \E p \in Procs : Step(p, CoopInputs)

SpecCoop == InitConc /\ [][NextCoop]_vars

\* one caller at a time, the backend answering with every content shape
NormInputs ==
    Domains(MaxCalls, {"http", "agent", "llm"}, {PyStr(<<"a">>)}, {PyStr(<<"q">>)},
            {PyNum(0)}, {PyNone}, {PyStr(<<"p">>)}, {PyNone}, {PyNone}, {PyNone},
            {PyNone}, {TRUE},
            {NoResponse, Raises, Bare(<<"r">>)} \cup {Message(c) : c \in Contents})

NextNorm == Step(1, NormInputs)

SpecNorm == Init /\ [][NextNorm]_vars

\* one caller at a time, with a trace name and a user id or without, tracing
\* switched on and off between the invocations
TraceInputs ==
    [Domains(MaxCalls, {"http", "agent", "llm"}, {PyStr(<<"a">>)}, {PyStr(<<"q">>)},
             {PyNum(0)}, {PyNone}, {PyStr(<<"p">>)}, TraceNames, {PyNone},
             UserIds, {PyNone}, {TRUE},
             {NoResponse, Raises, Message(Content("str", <<"a">>, 0, FALSE, <<>>, <<>>))})
     EXCEPT !.history = TRUE]

\* LangfuseConfig.initialize is called again while no invocation runs; when
\* it gets through, line 51 makes a new CallbackHandler
InitLangfuse ==
    /\ \A p \in Procs : pc[p] \in {"idle", "done"}
    /\ \E enabled \in BOOLEAN, creds \in BOOLEAN, sdk \in SdkOutcomes :
        /\ langfuse' = LangfuseInitialize(langfuse, enabled, creds, sdk)
        /\ langfuse' # langfuse
        /\ handler' = IF enabled /\ creds /\ sdk = "ok" THEN HandlerFields0
                      ELSE handler
    /\ UNCHANGED <<environ, pc, inv, calls, environ0, cfg, lfcall>>

NextTrace == Step(1, TraceInputs) \/ InitLangfuse

SpecTrace == Init /\ [][NextTrace]_vars

\* tracing disabled, nothing set in os.environ
InitConfig ==
    /\ Init
    /\ langfuse = LangfuseClassState
    /\ environ = [GOOGLE_API_KEY |-> PyNone, GOOGLE_CLOUD_PROJECT |-> PyNone]

SpecConfig == InitConfig /\ [][NextConfig]_vars

\* calls of LangfuseConfig methods in one behaviour
MaxLangfuseCalls == 4

\* the record of a LangfuseConfig call
LangfuseCall(op, enabled, creds, sdk, returned, reinitialized, flushed) ==
    [op |-> op, enabled |-> enabled, creds |-> creds, sdk |-> sdk,
     was_enabled |-> langfuse.enabled, returned |-> returned,
     reinitialized |-> reinitialized, flushed |-> flushed, n |-> lfcall.n + 1]

\* a caller calls LangfuseConfig.initialize, with any arguments
LfInitialize ==
    /\ lfcall.n < MaxLangfuseCalls
    /\ \E enabled \in BOOLEAN, creds \in BOOLEAN, sdk \in SdkOutcomes :
        /\ langfuse' = LangfuseInitialize(langfuse, enabled, creds, sdk)
        /\ handler' = IF enabled /\ creds /\ sdk = "ok" THEN HandlerFields0
                      ELSE handler
        /\ lfcall' = LangfuseCall("initialize", enabled, creds, sdk,
                                  FALSE, FALSE, FALSE)
    /\ UNCHANGED <<environ, pc, inv, calls, environ0, cfg>>

\* a caller calls LangfuseConfig.get_callback_handler
LfGetCallbackHandler ==
    /\ lfcall.n < MaxLangfuseCalls
    /\ \E creds \in BOOLEAN, sdk \in SdkOutcomes :
        /\ langfuse' = GetCallbackHandlerState(langfuse, creds, sdk)
        /\ lfcall' = LangfuseCall("get_callback_handler", TRUE, creds, sdk,
                                  GetCallbackHandler(langfuse, creds, sdk),
                                  langfuse.enabled /\ ~langfuse.callback_handler,
                                  FALSE)
    /\ UNCHANGED <<environ, handler, pc, inv, calls, environ0, cfg>>

\* a caller calls LangfuseConfig.get_client
LfGetClient ==
    /\ lfcall.n < MaxLangfuseCalls
    /\ \E creds \in BOOLEAN, sdk \in SdkOutcomes :
        /\ langfuse' = GetClientState(langfuse, creds, sdk)
        /\ lfcall' = LangfuseCall("get_client", TRUE, creds, sdk,
                                  GetClient(langfuse, creds, sdk),
                                  langfuse.enabled /\ ~langfuse.instance, FALSE)
    /\ UNCHANGED <<environ, handler, pc, inv, calls, environ0, cfg>>

\* a caller calls LangfuseConfig.flush, the client's flush() raising or not
LfFlush ==
    /\ lfcall.n < MaxLangfuseCalls
    /\ \E raises \in BOOLEAN :
        /\ LangfuseFlush(langfuse, raises) = NoExc
        /\ lfcall' = LangfuseCall("flush", TRUE, raises, "ok", FALSE, FALSE,
                                  FlushCalls(langfuse))
    /\ UNCHANGED <<environ, langfuse, handler, pc, inv, calls, environ0, cfg>>

\* the methods of LangfuseConfig called in any order
NextLangfuse == LfInitialize \/ LfGetCallbackHandler \/ LfGetClient \/ LfFlush

\* nothing set in os.environ; init_langfuse() has run with any outcome
InitLangfuseOnly ==
    /\ Init
    /\ environ = [GOOGLE_API_KEY |-> PyNone, GOOGLE_CLOUD_PROJECT |-> PyNone]

SpecLangfuse == InitLangfuseOnly /\ [][NextLangfuse]_vars

\* the api keys a direct caller of initialize_google_genai_llm passes
FactoryKeys == {PyNone, PyStr(<<>>), PyStr(<<" ">>), PyStr(<<"a">>)}

\* a caller calls initialize_google_genai_llm itself
CallGenaiFactory(p) ==
    /\ pc[p] \in {"idle", "done"}
    /\ calls[p] < MaxCalls
    /\ \E api_key \in FactoryKeys, temperature \in Temperatures,
          max_output_tokens \in MaxTokens, sdk_ok \in BOOLEAN :
        LET made == InitializeGoogleGenaiLlm(api_key, environ.GOOGLE_API_KEY,
                                             temperature, max_output_tokens, sdk_ok)
        IN  inv' = [inv EXCEPT ![p] =
                [FreshInv EXCEPT !.entry = "genai_factory",
                                 !.env0 = environ.GOOGLE_API_KEY,
                                 !.handler0 = handler,
                                 !.api_key = api_key,
                                 !.temperature = temperature,
                                 !.max_output_tokens = max_output_tokens,
                                 !.factories = {"genai"},
                                 !.llm = made.llm,
                                 !.exc = made.exc,
                                 !.raised = made.exc]]
    /\ pc' = [pc EXCEPT ![p] = "done"]
    /\ calls' = [calls EXCEPT ![p] = @ + 1]
    /\ UNCHANGED <<environ, langfuse, handler, environ0, cfg, lfcall>>

\* a caller calls initialize_vertex_ai_llm itself
CallVertexFactory(p) ==
    /\ pc[p] \in {"idle", "done"}
    /\ calls[p] < MaxCalls
    /\ \E project_id \in ProjectIds, temperature \in Temperatures,
          max_output_tokens \in MaxTokens, sdk_ok \in BOOLEAN :
        LET made == InitializeVertexAiLlm(project_id, environ.GOOGLE_CLOUD_PROJECT,
                                          temperature, max_output_tokens, sdk_ok)
        IN  inv' = [inv EXCEPT ![p] =
                [FreshInv EXCEPT !.entry = "vertex_factory",
                                 !.env0 = environ.GOOGLE_API_KEY,
                                 !.handler0 = handler,
                                 !.project_id = project_id,
                                 !.temperature = temperature,
                                 !.max_output_tokens = max_output_tokens,
                                 !.factories = {"vertex"},
                                 !.llm = made.llm,
                                 !.exc = made.exc,
                                 !.raised = made.exc]]
    /\ pc' = [pc EXCEPT ![p] = "done"]
    /\ calls' = [calls EXCEPT ![p] = @ + 1]
    /\ UNCHANGED <<environ, langfuse, handler, environ0, cfg, lfcall>>

\* the client factories called on their own, one call after the other
NextFactory == CallGenaiFactory(1) \/ CallVertexFactory(1)

SpecFactory == Init /\ [][NextFactory]_vars

(***************************************************************************)
(* What the claims speak of, said without the code's own tests             *)
(***************************************************************************)
\* a non-empty string
NonEmptyString(v) == v.t = "str" /\ Len(v.s) > 0

\* a string with a character that is not white space
NonBlankString(v) == v.t = "str" /\ \E i \in 1..Len(v.s) : ~IsSpace(v.s[i])

\* the invocation came in through call_generic_agent
ViaAgent(p) == inv[p].entry \in {"http", "agent"}

\* call_generic_agent has returned or raised
AgentEnded(p) == ViaAgent(p) /\ pc[p] \in {"ctl_respond", "done"}

\* the invocation is over, at whatever layer it came in
Ended(p) == inv[p].entry # "none" /\ pc[p] = "done"

\* the invocation ended by raising
Failure(p) == Ended(p) /\ inv[p].exc.kind # "none"

\* an argument the invocation was given and found invalid
GivenInvalidText(v) == v.t # "unread" /\ ~NonEmptyString(v)

(***************************************************************************)
(* C1.  A call_generic_agent invocation running alone with an accepted     *)
(* api_key leaves GOOGLE_API_KEY, when it ends by returning or by raising, *)
(* exactly as it was on entry: the same value, or absent if it was absent. *)
(***************************************************************************)
C1_KeyRestoredOnExit ==
    \A p \in Procs :
        AgentEnded(p) /\ NonEmptyString(inv[p].api_key)
            => environ.GOOGLE_API_KEY = inv[p].env0

\* a call that raised in the backend call, entered with no GOOGLE_API_KEY set
C1_Witness ==
    \E p \in Procs :
        /\ AgentEnded(p) /\ NonEmptyString(inv[p].api_key)
        /\ inv[p].invoked /\ inv[p].exc.kind = "CustomException"
        /\ inv[p].env0 = PyNone

(***************************************************************************)
(* C4.  call_generic_agent given an api_key that is empty, None or not a   *)
(* string fails with CustomException(400), and no step of that call writes *)
(* GOOGLE_API_KEY.                                                         *)
(***************************************************************************)
RejectedKeyCall(p) == ViaAgent(p) /\ GivenInvalidText(inv[p].api_key)

C4_BadKeyFails400 ==
    \A p \in Procs :
        RejectedKeyCall(p) =>
            /\ inv[p].exc = CustomException(<<"API key must be a non-empty string">>,
                                            HTTP_400_BAD_REQUEST)
            /\ inv[p].original_api_key = Unread
            /\ ~inv[p].invoked

C4_BadKeyNeverWrites ==
    [][(\E p \in Procs : RejectedKeyCall(p)') => environ' = environ]_vars

C4_InvalidKeyRejectedBeforeWrite == []C4_BadKeyFails400 /\ C4_BadKeyNeverWrites

\* the call with a non-string key is over, and a key was set all along
C4_Witness ==
    \E p \in Procs :
        /\ AgentEnded(p) /\ pc[p] = "done" /\ inv[p].api_key = PyInt(7)
        /\ inv[p].exc.status_code = HTTP_400_BAD_REQUEST
        /\ environ.GOOGLE_API_KEY = PyStr(<<"x">>)

(***************************************************************************)
(* C5.  The backend is selected from the GOOGLE_API_KEY read at selection  *)
(* time alone: the Google GenAI factory is called, and its client built,   *)
(* if and only if that value is a string that is not blank once trimmed;   *)
(* otherwise (absent, empty, white space only) it is the Vertex AI one.    *)
(* So two invocations that read the same value select the same backend.    *)
(***************************************************************************)
C5_BackendFromAmbientKey ==
    /\ \A p \in Procs :
          /\ inv[p].factories # {} =>
                inv[p].factories =
                    IF NonBlankString(inv[p].llm_api_key) THEN {"genai"} ELSE {"vertex"}
          /\ inv[p].llm.backend # "none" =>
                inv[p].llm.backend =
                    IF NonBlankString(inv[p].llm_api_key) THEN "genai" ELSE "vertex"
    /\ \A p, q \in Procs :
          inv[p].factories # {} /\ inv[q].factories # {}
            /\ inv[p].llm_api_key = inv[q].llm_api_key
              => inv[p].factories = inv[q].factories

\* a key of white space only was installed and the Vertex AI client was built
C5_Witness ==
    \E p \in Procs :
        /\ inv[p].llm_api_key = PyStr(<<" ">>)
        /\ inv[p].llm.backend = "vertex"

(***************************************************************************)
(* C6.  An invocation whose prompt or user_query is empty, None or not a   *)
(* string fails with status 400; it calls neither client factory and makes *)
(* no backend call.                                                        *)
(***************************************************************************)
C6_BadTextRejectedBeforeClient ==
    \A p \in Procs :
        GivenInvalidText(inv[p].prompt) \/ GivenInvalidText(inv[p].user_query)
            => /\ inv[p].exc.kind = "CustomException"
               /\ inv[p].exc.status_code = HTTP_400_BAD_REQUEST
               /\ inv[p].factories = {}
               /\ inv[p].llm = NoClient
               /\ ~inv[p].invoked

\* a call with a good prompt and a user_query that is not a string is over
C6_Witness ==
    \E p \in Procs :
        /\ Ended(p) /\ NonEmptyString(inv[p].prompt)
        /\ inv[p].user_query = PyInt(7)
        /\ inv[p].exc.status_code = HTTP_400_BAD_REQUEST

C7_ValidationFailureLeavesSharedState ==
    \A p \in Procs :
        Failure(p) /\ inv[p].exc.status_code = HTTP_400_BAD_REQUEST
            => /\ environ.GOOGLE_API_KEY = inv[p].env0
               /\ handler = inv[p].handler0

(***************************************************************************)
(* C8.  Every failure of call_generic_agent reaches the caller as a        *)
(* CustomException: with status 400 when the caller's input or the         *)
(* configuration is at fault (prompt, query, key, project id, temperature, *)
(* max_output_tokens), with status 500 otherwise; a CustomException raised *)
(* further in comes out with the status and detail it was raised with.     *)
(***************************************************************************)
\* the Vertex AI factory was called without a usable project id
ProjectMissing(p) ==
    /\ "vertex" \in inv[p].factories
    /\ ~NonEmptyString(IF inv[p].project_id = PyNone
                       THEN environ.GOOGLE_CLOUD_PROJECT ELSE inv[p].project_id)

\* a temperature outside [0, 1]
TemperatureInvalid(v) == v.t = "num" /\ (v.n < 0 \/ v.n > 100)

\* a max_output_tokens that is set and not greater than 0
MaxTokensInvalid(v) == v.t = "int" /\ ~(v.n > 0)

InputAtFault(p) ==
    \/ GivenInvalidText(inv[p].api_key)
    \/ GivenInvalidText(inv[p].prompt)
    \/ GivenInvalidText(inv[p].user_query)
    \/ ProjectMissing(p)
    \/ TemperatureInvalid(inv[p].temperature)
    \/ MaxTokensInvalid(inv[p].max_output_tokens)

C8_FailuresAreTyped ==
    \A p \in Procs :
        ViaAgent(p) /\ Failure(p) =>
            /\ inv[p].exc.kind = "CustomException"
            /\ inv[p].exc.status_code \in
                  {HTTP_400_BAD_REQUEST, HTTP_500_INTERNAL_SERVER_ERROR}
            \* the input at fault and no backend call made: 400
            /\ InputAtFault(p) /\ ~inv[p].invoked
                  => inv[p].exc.status_code = HTTP_400_BAD_REQUEST
            \* nothing wrong with the input: 500
            /\ ~InputAtFault(p)
                  => inv[p].exc.status_code = HTTP_500_INTERNAL_SERVER_ERROR
            /\ inv[p].raised.kind = "CustomException" => inv[p].exc = inv[p].raised

(***************************************************************************)
(* C9.  A response of the endpoint with status 500 carries the fixed       *)
(* generic message and no text of the internal exception; the detail of    *)
(* the exception is shown only in responses with status 400.               *)
(***************************************************************************)
C9_NoInternalTextIn500 ==
    \A p \in Procs :
        inv[p].entry = "http" /\ pc[p] = "done" =>
            /\ inv[p].http.status_code = HTTP_500_INTERNAL_SERVER_ERROR =>
                  /\ inv[p].http.message = <<INTERNAL_SERVER_ERROR>>
                  /\ \A i \in 1..Len(inv[p].http.message) :
                        inv[p].http.message[i] \notin SdkErrorTexts
            /\ inv[p].exc.kind # "none" /\ inv[p].http.message = inv[p].exc.detail
                  => inv[p].http.status_code = HTTP_400_BAD_REQUEST

(***************************************************************************)
(* C10.  The text call_llm_with_config returns is the reference            *)
(* normalization of the content, the checks made in the order string,      *)
(* sequence, text accessor, fallback: a string unchanged; a list as its    *)
(* parts joined by newlines, a part giving its text attribute if it has    *)
(* one, else itself if it is a string, else its string representation; an  *)
(* object with a text attribute that text; anything else its string        *)
(* representation.                                                         *)
(***************************************************************************)
RefPart(part) ==
    CASE part.hasText -> part.text
      [] ~part.hasText /\ part.k = "str" -> part.s
      [] OTHER -> StrOf(part)

\* the texts joined, a newline before every text but the first
RECURSIVE RefJoin(_, _)
RefJoin(parts, i) ==
    IF i > Len(parts) THEN <<>>
    ELSE (IF i > 1 THEN <<"\n">> ELSE <<>>) \o RefPart(parts[i]) \o RefJoin(parts, i + 1)

RefNormalize(content) ==
    CASE content.k = "str" -> content.s
      [] content.k = "list" -> RefJoin(content.parts, 1)
      [] content.k \notin {"str", "list"} /\ content.hasText -> content.text
      [] OTHER -> StrOf(content)

C10_NormalizedAsReference ==
    \A p \in Procs :
        inv[p].content.k # "unread" =>
            /\ inv[p].result = PyStr(RefNormalize(inv[p].content))
            /\ inv[p].content.k = "str" => inv[p].result.s = inv[p].content.s

\* a string that also has a text attribute came back, and the call returned
C10_Witness ==
    \E p \in Procs :
        /\ Ended(p) /\ inv[p].exc = NoExc
        /\ inv[p].content.k = "str" /\ inv[p].content.hasText
        /\ inv[p].result = PyStr(<<"b">>)

(***************************************************************************)
(* C11.  When the backend call gives back no response object the           *)
(* invocation fails with CustomException(500, "LLM returned empty          *)
(* response") and returns no text; when it gives back a response whose     *)
(* content is a non-empty string the invocation returns that string.       *)
(***************************************************************************)
C11_EmptyResponseFailsStringReturned ==
    \A p \in Procs :
        Ended(p) =>
            /\ inv[p].response.kind = "none" =>
                  /\ inv[p].exc = CustomException(<<"LLM returned empty response">>,
                                                  HTTP_500_INTERNAL_SERVER_ERROR)
                  /\ inv[p].result = Unread
            /\ (/\ inv[p].response.kind = "message"
                /\ inv[p].response.content.k = "str"
                /\ Len(inv[p].response.content.s) > 0) =>
                  /\ inv[p].exc = NoExc
                  /\ inv[p].result = PyStr(inv[p].response.content.s)
                  /\ Len(inv[p].result.s) > 0

\* call_generic_agent has raised after its backend call gave back nothing
C11_Witness ==
    \E p \in Procs :
        /\ Ended(p) /\ inv[p].entry = "agent"
        /\ inv[p].response.kind = "none"
        /\ inv[p].exc.status_code = HTTP_500_INTERNAL_SERVER_ERROR

(***************************************************************************)
(* C12.  No client of either backend is built by an invocation whose       *)
(* temperature is outside [0, 1] or whose max_output_tokens is set and not *)
(* greater than 0: whichever backend is selected, such an invocation fails *)
(* with status 400.                                                        *)
(***************************************************************************)
\* the temperature is a number, and it or max_output_tokens is not valid
ParametersInvalid(p) ==
    /\ inv[p].temperature.t = "num"
    /\ \/ TemperatureInvalid(inv[p].temperature)
       \/ MaxTokensInvalid(inv[p].max_output_tokens)

C12_NoClientWithInvalidParameters ==
    \A p \in Procs :
        ParametersInvalid(p) =>
            /\ inv[p].llm = NoClient
            /\ inv[p].exc.kind = "CustomException"
            /\ inv[p].exc.status_code = HTTP_400_BAD_REQUEST

(***************************************************************************)
(* C13.  initialize_vertex_ai_llm, given a project id, accepts a           *)
(* temperature exactly when it lies in [0, 1]: 0.0 and 1.0 are accepted    *)
(* and the client is built with them; a temperature below 0 or above 1     *)
(* fails with status 400 and no client is built.                           *)
(***************************************************************************)
\* initialize_vertex_ai_llm was called with a project id, its own or
\* GOOGLE_CLOUD_PROJECT
VertexCallWithProject(p) ==
    /\ inv[p].entry = "vertex_factory"
    /\ NonEmptyString(IF inv[p].project_id = PyNone
                      THEN environ.GOOGLE_CLOUD_PROJECT ELSE inv[p].project_id)

TemperatureError ==
    CustomException(<<"Temperature must be between 0 and 1">>, HTTP_400_BAD_REQUEST)

C13_TemperatureClosedInterval ==
    \A p \in Procs :
        VertexCallWithProject(p) /\ inv[p].temperature.t = "num" =>
            IF inv[p].temperature.n >= 0 /\ inv[p].temperature.n <= 100
            THEN /\ inv[p].exc # TemperatureError
                 \* built, unless max_output_tokens or the SDK stood in the way
                 /\ inv[p].exc = NoExc =>
                       /\ inv[p].llm.backend = "vertex"
                       /\ inv[p].llm.temperature = inv[p].temperature
                 /\ inv[p].exc # NoExc =>
                       \/ MaxTokensInvalid(inv[p].max_output_tokens)
                       \/ inv[p].exc.status_code = HTTP_500_INTERNAL_SERVER_ERROR
            ELSE /\ inv[p].exc = TemperatureError
                 /\ inv[p].llm = NoClient

\* a Vertex AI client was built with the temperature 1.0
C13_Witness ==
    \E p \in Procs :
        /\ VertexCallWithProject(p)
        /\ inv[p].temperature = PyNum(100)
        /\ inv[p].llm.backend = "vertex"

(***************************************************************************)
(* C14.  initialize_vertex_ai_llm, given a project id and a valid          *)
(* temperature, rejects a max_output_tokens that is provided and is not    *)
(* positive, 0 and the negative values, with status 400 and builds no      *)
(* client; it accepts every positive value.                                *)
(***************************************************************************)
MaxTokensError ==
    CustomException(<<"max_output_tokens must be positive">>, HTTP_400_BAD_REQUEST)

C14_NonPositiveMaxTokensRejected ==
    \A p \in Procs :
        (/\ VertexCallWithProject(p)
         /\ inv[p].temperature.t = "num" /\ ~TemperatureInvalid(inv[p].temperature)
         /\ inv[p].max_output_tokens.t = "int") =>
            IF inv[p].max_output_tokens.n > 0
            THEN inv[p].exc # MaxTokensError
            ELSE /\ inv[p].exc = MaxTokensError
                 /\ inv[p].llm = NoClient

(***************************************************************************)
(* C15.  initialize_google_genai_llm builds no client without a non-empty  *)
(* API key: when the effective key, the api_key argument or GOOGLE_API_KEY *)
(* when no argument is given, is absent or empty, the call fails with      *)
(* status 400 and builds no client.                                        *)
(***************************************************************************)
EffectiveKey(p) == IF inv[p].api_key = PyNone THEN inv[p].env0 ELSE inv[p].api_key

C15_GenaiNeedsKey ==
    \A p \in Procs :
        inv[p].entry = "genai_factory" /\ ~NonEmptyString(EffectiveKey(p)) =>
            /\ inv[p].exc.kind = "CustomException"
            /\ inv[p].exc.status_code = HTTP_400_BAD_REQUEST
            /\ inv[p].llm = NoClient

(***************************************************************************)
(* C16.  initialize_vertex_ai_llm builds no client without a non-empty     *)
(* project id: when the effective project id, the explicit project_id or   *)
(* GOOGLE_CLOUD_PROJECT when none is given, is absent or empty, the call   *)
(* fails with status 400 and builds no client.                             *)
(***************************************************************************)
C16_VertexNeedsProject ==
    \A p \in Procs :
        ProjectMissing(p) =>
            /\ inv[p].exc.kind = "CustomException"
            /\ inv[p].exc.status_code = HTTP_400_BAD_REQUEST
            /\ inv[p].llm = NoClient

(***************************************************************************)
(* C17.  With tracing enabled, when an invocation makes its backend call   *)
(* the trace_name, metadata, user_id and session_id of the callback        *)
(* handler are those of the invocation's own trace context, the fields it  *)
(* leaves unset included: no field has a value an earlier invocation set.  *)
(***************************************************************************)
\* the trace arguments call_llm_with_config was called with
OwnTraceContext(p) ==
    [trace_name |-> inv[p].trace_name, metadata |-> inv[p].trace_metadata,
     user_id |-> inv[p].user_id, session_id |-> inv[p].session_id]

C17_HandlerCarriesOwnContext ==
    \A p \in Procs :
        inv[p].invoked /\ inv[p].callbacks =>
            inv[p].called_with = OwnTraceContext(p)

(***************************************************************************)
(* C18.  With tracing enabled, an invocation that reached the backend call *)
(* has flushed the trace data by the time it ends, whether the backend     *)
(* call succeeded, raised or gave back an empty response.                  *)
(***************************************************************************)
C18_FlushedBeforeEnd ==
    \A p \in Procs :
        Ended(p) /\ inv[p].invoked /\ inv[p].langfuse_handler =>
            inv[p].flushes >= 1

(***************************************************************************)
(* C19.  A flush that raises does not change the outcome: the backend call *)
(* having succeeded, the invocation still returns the normalized text and  *)
(* raises nothing.                                                         *)
(***************************************************************************)
C19_FlushFailureSwallowed ==
    \A p \in Procs :
        inv[p].flush_raised =>
            /\ inv[p].exc = NoExc
            /\ inv[p].result = PyStr(Normalize(inv[p].content))
            /\ pc[p] \notin {"llm_except", "svc_except"}
            /\ inv[p].entry = "http" /\ pc[p] = "done" =>
                  inv[p].http = [status_code |-> HTTP_200_OK,
                                 message |-> inv[p].result.s]

\* call_generic_agent returned the text although the flush had raised
C19_Witness ==
    \E p \in Procs :
        /\ AgentEnded(p) /\ pc[p] = "done"
        /\ inv[p].flush_raised
        /\ inv[p].result = PyStr(<<"a">>)

(***************************************************************************)
(* C20.  With tracing disabled, get_callback_handler returns no handler,   *)
(* the backend call is made without a callback, no flush is attempted, and *)
(* the invocation ends as the same invocation ends with tracing enabled:   *)
(* with the same text or the same exception.                               *)
(***************************************************************************)
\* the caller's previous invocation was the same call, answered alike by the
\* backend, with tracing the other way round
SameCallOtherTracing(p) ==
    /\ inv[p].prev.used
    /\ inv[p].prev.entry = inv[p].entry
    /\ inv[p].prev.llm_api_key = inv[p].llm_api_key
    /\ inv[p].prev.response = inv[p].response
    /\ inv[p].prev.tracing0 # inv[p].tracing0

C20_UntracedSameOutcome ==
    \A p \in Procs :
        /\ inv[p].entry # "none" /\ ~inv[p].tracing0 =>
              /\ ~inv[p].langfuse_handler
              /\ ~inv[p].callbacks
              /\ inv[p].flushes = 0 /\ ~inv[p].flush_raised
        /\ Ended(p) /\ SameCallOtherTracing(p) =>
              /\ inv[p].exc = inv[p].prev.exc
              /\ inv[p].result = inv[p].prev.result

\* an untraced call returned what the same call had returned when traced
C20_Witness ==
    \E p \in Procs :
        /\ Ended(p) /\ SameCallOtherTracing(p)
        /\ ~inv[p].tracing0 /\ inv[p].invoked
        /\ inv[p].result = PyStr(<<"a">>)

(***************************************************************************)
(* C21.  config_override overrides for the time of its block: on entry get *)
(* returns the override value for the keys, and once the block is left, by *)
(* return or by exception, get returns for them what it returned just      *)
(* before the block was entered, also when that was an override set by an  *)
(* enclosing config_override or by set_override.                           *)
(***************************************************************************)
C21_OverrideRestoredOnExit ==
    /\ \A i \in 1..Len(cfg.blocks) : cfg.blocks[i].inside = cfg.blocks[i].value
    \* the body of the block did not set or clear the override itself
    /\ cfg.last.used /\ ~cfg.last.touched => cfg.last.after = cfg.last.before

(***************************************************************************)
(* C22.  An api_key that call_generic_agent accepts, any non-empty string, *)
(* makes an invocation running alone select the Google GenAI backend and   *)
(* build its client with that very key, whatever GOOGLE_API_KEY was        *)
(* before; the Vertex AI backend is never selected for such a call.        *)
(***************************************************************************)
C22_AcceptedKeySelectsGenai ==
    \A p \in Procs :
        ViaAgent(p) /\ NonEmptyString(inv[p].api_key) =>
            /\ inv[p].factories \subseteq {"genai"}
            /\ pc[p] \in {"llm_tracing", "llm_factory"} => inv[p].use_genai
            /\ inv[p].llm # NoClient =>
                  /\ inv[p].llm.backend = "genai"
                  /\ inv[p].llm.api_key = inv[p].api_key

(***************************************************************************)
(* C23.  Whatever sequence of initialize, get_callback_handler, get_client *)
(* and flush calls is made, with or without credentials and SDK failures,  *)
(* _enabled implies that the client instance and the callback handler are  *)
(* both set; so get_callback_handler returns a handler exactly when        *)
(* tracing is enabled, and never initializes again.                        *)
(***************************************************************************)
C23_EnabledImpliesInitialized ==
    /\ langfuse.enabled => langfuse.instance /\ langfuse.callback_handler
    /\ lfcall.op = "get_callback_handler" =>
          /\ lfcall.returned <=> lfcall.was_enabled
          /\ ~lfcall.reinitialized
          /\ langfuse.enabled = lfcall.was_enabled
    /\ lfcall.op = "get_client" => ~lfcall.reinitialized

\* tracing was enabled and initialize, called again, failed to make the
\* callback handler
C23_Witness ==
    /\ lfcall.op = "initialize" /\ lfcall.was_enabled
    /\ lfcall.enabled /\ lfcall.creds /\ lfcall.sdk = "no_handler"
    /\ ~langfuse.enabled /\ langfuse.callback_handler

====
